---------------------------- MODULE Spec2Model ----------------------------
(***************************************************************************)
(* Village generator of MCServer (src/Generating/VillageGen.cpp):          *)
(* cVillageGen::CreateStructure, the cVillage constructor with its ground  *)
(* snap and cascade, the two GetPieceWeight hooks, and DrawIntoChunk with  *)
(* DrawRoad and PlacePieceOnGround.  The BFS piece generator, cPlacedPiece, *)
(* cPrefab, cNoise and cChunkDef are not part of VillageGen.cpp; they are  *)
(* modelled from the specification and marked so in MODEL_MAP.json.        *)
(***************************************************************************)
EXTENDS Integers, Sequences, FiniteSets, TLC

VARIABLES
    pc,             \* position: "biomes", "assemble", "built", "rejected"
    i,              \* CreateStructure: loop index into Biomes[]
    rnd,            \* CreateStructure: m_Noise.IntNoise2DInt(origin) / 11
    cfg,            \* cVillageGen: [min |-> m_MinDensity, max |-> m_MaxDensity]
    VillagePrefabs, \* CreateStructure: chosen pool, "nullptr" before any choice
    sampled,        \* history of the biomes read so far by the loop
    result,         \* what CreateStructure returned: "pending", "none", "structure"
    m_Density,      \* cVillage::m_Density
    m_Pieces,       \* cVillage::m_Pieces, in placement order
    cursor,         \* BFS generator: the last connector processed <<piece, connector>>
    terrain,        \* the height generator (a terrain profile)
    chunk,          \* the cChunkDesc handed to DrawIntoChunk
    prev            \* history: block writes and pieces before the last DrawIntoChunk

vars == <<pc, i, rnd, cfg, VillagePrefabs, sampled, result, m_Density, m_Pieces,
          cursor, terrain, chunk, prev>>

-----------------------------------------------------------------------------
(* Bounds of the model *)

MaxRnd == 2          \* rnd ranges over 0..MaxRnd
MaxPieces == 4       \* the generator stops after this many pieces
MaxDepth == 2        \* cVillageGen::m_MaxDepth (configuration)
MaxSize == 40        \* cVillageGen::m_MaxSize (configuration)
MaxDraws == 2        \* DrawIntoChunk calls on one chunk descriptor

(* Program constants *)

Width == 16          \* cChunkDef::Width
Height == 256        \* cChunkDef::Height
NumBiomes == 256     \* ARRAYCOUNT(Biomes) = Width * Width
NoiseMod == 2^16     \* the range of the stand-in for cNoise's hash

OriginX == 8
OriginZ == 8

-----------------------------------------------------------------------------
(* cChunkDef helpers *)

FloorDiv(a, b) == a \div b

Max2(a, b) == IF a > b THEN a ELSE b
Min2(a, b) == IF a < b THEN a ELSE b

\* cChunkDef::BlockToChunk / AbsoluteToRelative: the chunk of a block column
BlockToChunk(x) == FloorDiv(x, Width)
\* cChunkDef::AbsoluteToRelative: the column inside its chunk
AbsoluteToRelative(x) == x % Width

-----------------------------------------------------------------------------
(* Pieces: cPiece / cPrefab templates *)

Dirs == {"XM", "XP", "ZM", "ZP"}

Conn(x, y, z, dir, type) == [x |-> x, y |-> y, z |-> z, dir |-> dir, type |-> type]

\* The x offsets lo, lo + 12, ... below len (the for loops of the road constructor)
RECURSIVE RoadSteps(_, _)
RoadSteps(lo, len) == IF lo < len THEN <<lo>> \o RoadSteps(lo + 12, len) ELSE << >>

RECURSIVE SideConnectors(_, _)
SideConnectors(xs, type) ==
    IF xs = << >> THEN << >>
    ELSE <<Conn(Head(xs), 0, 0, "ZM", type), Conn(Head(xs), 0, 2, "ZP", type)>>
         \o SideConnectors(Tail(xs), type)

\* cVillagePiecePool::cVillagePiecePool: one road piece of the given length
RoadPiece(len) ==
    [ sx |-> len, sy |-> 1, sz |-> 3,
      conns |-> <<Conn(0, 0, 1, "XM", -2), Conn(len - 1, 0, 1, "XP", -2)>>
                \o SideConnectors(RoadSteps(1, len), 2)
                \o SideConnectors(RoadSteps(7, len), 1),
      moveToGround |-> FALSE,
      weight |-> 100,
      starting |-> FALSE ]

\* for (int len = 27; len < 60; len += 12)
RECURSIVE RoadLengthsFrom(_)
RoadLengthsFrom(len) == IF len < 60 THEN {len} \cup RoadLengthsFrom(len + 12) ELSE {}
RoadLengths == RoadLengthsFrom(27)

RoadName(len) == IF len = 27 THEN "Road27" ELSE IF len = 39 THEN "Road39" ELSE "Road51"
RoadNames == {RoadName(len) : len \in RoadLengths}

\* The prefabs of a style: a starting piece with one connector of type 2 and
\* buildings with one connector of type -1, each with its ground-anchoring flag.
StartingNames == {"WellGround", "WellFixed"}
HouseNames == {"HouseGround", "HouseFixed"}

Well(ground) ==
    [ sx |-> 3, sy |-> 4, sz |-> 3,
      conns |-> <<Conn(2, 1, 1, "XP", 2)>>,
      moveToGround |-> ground, weight |-> 100, starting |-> TRUE ]

House(ground) ==
    [ sx |-> 3, sy |-> 5, sz |-> 3,
      conns |-> <<Conn(1, IF ground THEN 1 ELSE 0, 0, "ZM", -1)>>,
      moveToGround |-> ground, weight |-> 100, starting |-> FALSE ]

PieceNames == RoadNames \cup StartingNames \cup HouseNames

PieceDef(name) ==
    CASE name = "Road27" -> RoadPiece(27)
      [] name = "Road39" -> RoadPiece(39)
      [] name = "Road51" -> RoadPiece(51)
      [] name = "WellGround" -> Well(TRUE)
      [] name = "WellFixed" -> Well(FALSE)
      [] name = "HouseGround" -> House(TRUE)
      [] OTHER -> House(FALSE)

PieceTable == [n \in PieceNames |-> PieceDef(n)]
Piece(name) == PieceTable[name]

\* The connector indices of the piece with the most connectors
ConnectorIndices == 1..Len(PieceTable["Road51"].conns)

\* cPrefabPiecePool::GetPiecesWithConnector: m_PiecesByConnector[type]
GetPiecesWithConnector(type) ==
    {n \in PieceNames :
        /\ ~Piece(n).starting
        /\ \E k \in DOMAIN Piece(n).conns : Piece(n).conns[k].type = type}

\* cPrefabPiecePool::GetStartingPieces
GetStartingPieces == {n \in PieceNames : Piece(n).starting}

-----------------------------------------------------------------------------
(* Placed pieces: cPlacedPiece *)

\* cPiece::RotatePos, by a number of counter-clockwise quarter turns
RotatePos(x, z, rot, sx, sz) ==
    CASE rot = 0 -> <<x, z>>
      [] rot = 1 -> <<z, sx - x - 1>>
      [] rot = 2 -> <<sx - x - 1, sz - z - 1>>
      [] OTHER   -> <<sz - z - 1, x>>

RotateDirCCW(d) ==
    CASE d = "XM" -> "ZP"
      [] d = "ZP" -> "XP"
      [] d = "XP" -> "ZM"
      [] OTHER    -> "XM"

RECURSIVE RotateDir(_, _)
RotateDir(d, rot) == IF rot = 0 THEN d ELSE RotateDir(RotateDirCCW(d), rot - 1)

OppositeDir(d) ==
    CASE d = "XM" -> "XP"
      [] d = "XP" -> "XM"
      [] d = "ZM" -> "ZP"
      [] OTHER    -> "ZM"

DirX(d) == IF d = "XM" THEN -1 ELSE IF d = "XP" THEN 1 ELSE 0
DirZ(d) == IF d = "ZM" THEN -1 ELSE IF d = "ZP" THEN 1 ELSE 0

\* cPlacedPiece::GetRotatedConnector: connector k of a placed piece, in world space
GetRotatedConnector(pp, k) ==
    LET t == Piece(pp.name)
        c == t.conns[k]
        rp == RotatePos(c.x, c.z, pp.rot, t.sx, t.sz)
    IN  [x |-> pp.x + rp[1], y |-> pp.y + c.y, z |-> pp.z + rp[2],
         dir |-> RotateDir(c.dir, pp.rot), type |-> c.type]

\* cPlacedPiece::GetHitBox: the world-space bounding volume, sorted
GetHitBox(pp) ==
    LET t == Piece(pp.name)
        dx == IF pp.rot % 2 = 0 THEN t.sx ELSE t.sz
        dz == IF pp.rot % 2 = 0 THEN t.sz ELSE t.sx
    IN  [x1 |-> pp.x, x2 |-> pp.x + dx - 1,
         y1 |-> pp.y, y2 |-> pp.y + t.sy - 1,
         z1 |-> pp.z, z2 |-> pp.z + dz - 1]

\* cCuboid::DoesIntersect
DoesIntersect(a, b) ==
    /\ a.x1 <= b.x2 /\ b.x1 <= a.x2
    /\ a.y1 <= b.y2 /\ b.y1 <= a.y2
    /\ a.z1 <= b.z2 /\ b.z1 <= a.z2

\* cCuboid containment
IsInside(box, outer) ==
    /\ outer.x1 <= box.x1 /\ box.x2 <= outer.x2
    /\ outer.y1 <= box.y1 /\ box.y2 <= outer.y2
    /\ outer.z1 <= box.z1 /\ box.z2 <= outer.z2

\* cPrefab::ShouldMoveToGround
ShouldMoveToGround(pp) == Piece(pp.name).moveToGround

\* A road is a piece one block high: GetPiece().GetSize().y == 1
IsRoad(pp) == Piece(pp.name).sy = 1

\* cPlacedPiece::MoveToGroundBy
MoveToGroundBy(pp, offset) ==
    [pp EXCEPT !.y = @ + offset, !.moved = TRUE, !.moves = @ + 1]

\* cVillage::m_Borders, as initialised by the constructor
m_Borders ==
    [x1 |-> OriginX - MaxSize, x2 |-> OriginX + MaxSize,
     y1 |-> 0, y2 |-> Height - 1,
     z1 |-> OriginZ - MaxSize, z2 |-> OriginZ + MaxSize]

-----------------------------------------------------------------------------
(* Terrain: cTerrainHeightGen *)

Hills == [base |-> 62, amp |-> 3]
Peaks == [base |-> 252, amp |-> 1]
TerrainProfiles == {Hills, Peaks}

\* The surface height of the world column (x, z)
TerrainAt(t, x, z) == t.base + ((x + 2 * z) % (t.amp + 1))

\* cTerrainHeightGen::GenHeightMap followed by cChunkDef::GetHeight
GetHeight(t, cx, cz, rx, rz) == TerrainAt(t, cx * Width + rx, cz * Width + rz)

-----------------------------------------------------------------------------
(* Weights *)

\* cNoise::IntNoise3DInt: a deterministic non-negative hash of the coordinates
IntNoise3DInt(x, y, z) ==
    (((x + y * 57 + z * 3249) % NoiseMod) * 25173 + 13849) % NoiseMod

\* cPrefab::GetPieceWeight: the candidate's own weight
cPrefab_GetPieceWeight(newName) == Piece(newName).weight

\* cVillagePiecePool::GetPieceWeight with the depth test off by one
PoolWeightDepthOffByOne(placed, existing, newName) ==
    IF (existing.type = 2) /\ (Piece(placed.name).sy = 1) /\ (placed.depth > 1)
    THEN 0
    ELSE cPrefab_GetPieceWeight(newName)

\* cVillagePiecePool::GetPieceWeight
cVillagePiecePool_GetPieceWeight(placed, existing, newName) ==
    IF (existing.type = 2) /\ (placed.depth > 0) /\ (Piece(placed.name).sy = 1)
    THEN 0
    ELSE cPrefab_GetPieceWeight(newName)

\* The density test of cVillage::GetPieceWeight: rnd > m_Density
DensityRejects(r, density) == r > density

\* The reduced hash of a connector's position
DensityHash(pos) == (IntNoise3DInt(pos.x, pos.y, pos.z) \div 7) % 100

\* cVillage::GetPieceWeight
cVillage_GetPieceWeight(density, placed, k, newName) ==
    LET existing == GetRotatedConnector(placed, k)
    IN  IF (existing.type = 1) /\ DensityRejects(DensityHash(existing), density)
        THEN 0
        ELSE cVillagePiecePool_GetPieceWeight(placed, existing, newName)

-----------------------------------------------------------------------------
(* cVillageGen::CreateStructure *)

g_DesertVillagePools == <<"g_SandVillage", "g_SandFlatRoofVillage", "g_AlchemistVillage">>
g_PlainsVillagePools == <<"g_PlainsVillage", "g_JapaneseVillage">>

DesertBiomes == {"biDesert", "biDesertM"}
PlainsBiomes == {"biPlains", "biSavanna", "biSavannaM", "biSunflowerPlains"}
OtherBiomes == {"biOcean", "biForest"}
AllBiomes == DesertBiomes \cup PlainsBiomes \cup OtherBiomes

\* g_PlainsVillagePools[rnd % ARRAYCOUNT(g_PlainsVillagePools)]
PlainsVillage(r) == g_PlainsVillagePools[(r % Len(g_PlainsVillagePools)) + 1]
\* g_DesertVillagePools[rnd % ARRAYCOUNT(g_DesertVillagePools)]
DesertVillage(r) == g_DesertVillagePools[(r % Len(g_DesertVillagePools)) + 1]

PoolFamily(pool) ==
    IF pool = "nullptr" THEN "none"
    ELSE IF \E k \in DOMAIN g_DesertVillagePools : g_DesertVillagePools[k] = pool
         THEN "desert" ELSE "plains"

BiomeFamily(b) ==
    IF b \in DesertBiomes THEN "desert" ELSE IF b \in PlainsBiomes THEN "plains" ELSE "none"

\* The switch with the first family kept instead of the last
SwitchBiomeFirstWins(b, r, current) ==
    IF current # "nullptr" THEN current
    ELSE IF b \in DesertBiomes THEN DesertVillage(r) ELSE PlainsVillage(r)

\* The switch with the default case falling through
SwitchBiomeNoDefault(b) == FALSE

\* switch (Biomes[i]): the pool after a village-friendly biome
SwitchBiome(b, r, current) ==
    IF b \in DesertBiomes THEN DesertVillage(r) ELSE PlainsVillage(r)

\* switch (Biomes[i]): the default case, which returns no structure
SwitchBiomeIsDefault(b) == b \notin (DesertBiomes \cup PlainsBiomes)

\* Density = m_MinDensity + rnd % (m_MaxDensity - m_MinDensity), or m_MinDensity
ChooseDensity(c, r) ==
    IF c.max > c.min THEN c.min + (r % (c.max - c.min)) ELSE c.min

NoChunk == [cx |-> 0, cz |-> 0, pattern |-> 0, writes |-> << >>, draws |-> -1]
NoPrev == [writes |-> << >>, pieces |-> << >>]

\* One iteration of for (i = 0; i < ARRAYCOUNT(Biomes); i++) on the biome b read
SampleBiome(b) ==
    /\ pc = "biomes"
    /\ i < NumBiomes
    /\ sampled' = [sampled EXCEPT !.desert = @ \/ (b \in DesertBiomes),
                                  !.plains = @ \/ (b \in PlainsBiomes),
                                  !.other = @ \/ (b \in OtherBiomes),
                                  !.last = BiomeFamily(b)]
    /\ IF SwitchBiomeIsDefault(b)
       THEN /\ result' = "none"
            /\ pc' = "rejected"
            /\ UNCHANGED <<i, VillagePrefabs>>
       ELSE /\ VillagePrefabs' = SwitchBiome(b, rnd, VillagePrefabs)
            /\ i' = i + 1
            /\ UNCHANGED <<pc, result>>
    /\ UNCHANGED <<rnd, cfg, m_Density, m_Pieces, cursor, terrain, chunk, prev>>

\* After the loop: the density, the nullptr test, and the entry into new cVillage
ChooseAndConstruct ==
    /\ pc = "biomes"
    /\ i = NumBiomes
    /\ IF VillagePrefabs = "nullptr"
       THEN /\ result' = "none"
            /\ pc' = "rejected"
            /\ UNCHANGED m_Density
       ELSE /\ m_Density' = ChooseDensity(cfg, rnd)
            /\ pc' = "assemble"
            /\ UNCHANGED result
    /\ UNCHANGED <<i, rnd, cfg, VillagePrefabs, sampled, m_Pieces, cursor, terrain,
                   chunk, prev>>

-----------------------------------------------------------------------------
(* cBFSPieceGenerator::PlacePieces, driven by cVillage's pool interface *)

NewPlaced(name, rot, x, y, z, parent, depth, via, own) ==
    [name |-> name, rot |-> rot, x |-> x, y |-> y, z |-> z,
     parent |-> parent, depth |-> depth, via |-> via, own |-> own,
     moved |-> FALSE, moves |-> 0, snaps |-> 0, origY |-> y]

\* The generator places a starting piece at the origin, Y = 0
PlaceStartingPiece ==
    /\ pc = "assemble"
    /\ m_Pieces = << >>
    /\ cursor = <<0, 0>>
    /\ \E n \in GetStartingPieces, r \in 0..3 :
          /\ Piece(n).weight > 0
          /\ m_Pieces' = <<NewPlaced(n, r, OriginX, 0, OriginZ, 0, 0, 0, 0)>>
    /\ cursor' = <<1, 0>>
    /\ UNCHANGED <<pc, i, rnd, cfg, VillagePrefabs, sampled, result, m_Density,
                   terrain, chunk, prev>>

\* The position of a new piece whose connector j, after rotation r, meets the
\* existing connector e face to face
AttachAt(e, n, j, r) ==
    LET t == Piece(n)
        c == t.conns[j]
        rp == RotatePos(c.x, c.z, r, t.sx, t.sz)
    IN  [x |-> e.x + DirX(e.dir) - rp[1],
         y |-> e.y - c.y,
         z |-> e.z + DirZ(e.dir) - rp[2]]

\* Candidate n, by its connector j and under rotation r, can be attached to
\* connector k of placed piece p: the types are opposite, the connectors face
\* each other, and the new piece stays inside the borders and hits no placed piece
Fits(pieces, p, k, n, j, r) ==
    LET placed == pieces[p]
        e == GetRotatedConnector(placed, k)
        pos == AttachAt(e, n, j, r)
        box == GetHitBox(NewPlaced(n, r, pos.x, pos.y, pos.z, p, placed.depth + 1, k, j))
    IN  /\ Piece(n).conns[j].type = -e.type
        /\ RotateDir(Piece(n).conns[j].dir, r) = OppositeDir(e.dir)
        /\ IsInside(box, m_Borders)
        /\ \A q \in DOMAIN pieces : ~DoesIntersect(box, GetHitBox(pieces[q]))

\* The candidates <<n, j, r>> for connector k of placed piece p: those of
\* non-zero weight that fit
Candidates(pieces, density, p, k) ==
    IF (p = 0) \/ (k = pieces[p].own) \/ ~(pieces[p].depth < MaxDepth + 1) THEN {}
    ELSE {c \in {<<n, j, r>> : n \in {m \in GetPiecesWithConnector(-Piece(pieces[p].name).conns[k].type) :
                                         cVillage_GetPieceWeight(density, pieces[p], k, m) > 0},
                                j \in ConnectorIndices, r \in 0..3} :
             /\ c[2] \in DOMAIN Piece(c[1]).conns
             /\ Fits(pieces, p, k, c[1], c[2], c[3])}

\* The next free connector from <<p, k>> on, in breadth-first order (pieces in
\* placement order, the connectors of a piece in their own order), at which
\* some candidate fits; <<0, 0>> when there is none
RECURSIVE NextOpenConnector(_, _, _, _)
NextOpenConnector(pieces, density, p, k) ==
    IF p > Len(pieces) THEN <<0, 0>>
    ELSE IF k > Len(Piece(pieces[p].name).conns)
         THEN NextOpenConnector(pieces, density, p + 1, 1)
         ELSE IF Candidates(pieces, density, p, k) # {}
              THEN <<p, k>>
              ELSE NextOpenConnector(pieces, density, p, k + 1)

\* The generator attaches, at the next connector where something fits, one of
\* the candidates that fit
PlaceAt(first) ==
    \E c \in Candidates(m_Pieces, m_Density, first[1], first[2]) :
       LET pos == AttachAt(GetRotatedConnector(m_Pieces[first[1]], first[2]), c[1], c[2], c[3])
       IN  /\ m_Pieces' = Append(m_Pieces,
                 NewPlaced(c[1], c[3], pos.x, pos.y, pos.z, first[1],
                           m_Pieces[first[1]].depth + 1, first[2], c[2]))
           /\ cursor' = first

PlacePiece ==
    /\ pc = "assemble"
    /\ Len(m_Pieces) >= 1
    /\ Len(m_Pieces) < MaxPieces
    /\ PlaceAt(NextOpenConnector(m_Pieces, m_Density, cursor[1], cursor[2] + 1))
    /\ UNCHANGED <<pc, i, rnd, cfg, VillagePrefabs, sampled, result, m_Density,
                   terrain, chunk, prev>>

-----------------------------------------------------------------------------
(* cVillage: the ground snap *)

\* cVillage::PlacePieceOnGround
PlacePieceOnGround(t, pp) ==
    LET first == GetRotatedConnector(pp, 1)
        h == GetHeight(t, BlockToChunk(first.x), BlockToChunk(first.z),
                       AbsoluteToRelative(first.x), AbsoluteToRelative(first.z))
    IN  [MoveToGroundBy(pp, h - first.y + 1) EXCEPT !.snaps = @ + 1]

\* The test of MoveAllDescendants with the ground-anchoring condition dropped
IsCascadedAnyChild(pieces, pivot, idx) == pieces[idx].parent = pivot

\* The test of MoveAllDescendants: a direct dependant that attaches by connectors
IsCascaded(pieces, pivot, idx) ==
    /\ pieces[idx].parent = pivot
    /\ ~ShouldMoveToGround(pieces[idx])

\* cVillage::MoveAllDescendants: the loop from index idx on
RECURSIVE MoveDescendantsFrom(_, _, _, _)
MoveDescendantsFrom(pieces, pivot, idx, diff) ==
    IF idx > Len(pieces) THEN pieces
    ELSE IF IsCascaded(pieces, pivot, idx)
         THEN LET moved == [pieces EXCEPT ![idx] = MoveToGroundBy(@, diff)]
              IN  MoveDescendantsFrom(MoveDescendantsFrom(moved, idx, idx + 1, diff),
                                      pivot, idx + 1, diff)
         ELSE MoveDescendantsFrom(pieces, pivot, idx + 1, diff)

\* cVillage::MoveAllDescendants
MoveAllDescendants(pieces, pivot, diff) == MoveDescendantsFrom(pieces, pivot, pivot + 1, diff)

\* The rest of cVillage::cVillage once PlacePieces has returned
SnapRoot(t, pieces) ==
    IF pieces = << >> THEN pieces
    ELSE IF ShouldMoveToGround(pieces[1])
         THEN LET OrigPosY == pieces[1].y
                  snapped == [pieces EXCEPT ![1] = PlacePieceOnGround(t, @)]
                  NewPosY == snapped[1].y
              IN  MoveAllDescendants(snapped, 1, NewPosY - OrigPosY)
         ELSE pieces

\* CreateStructure returning nothing for a village without pieces
CreateStructureReturnNonEmpty(pieces) == IF pieces = << >> THEN "none" ELSE "structure"

\* return cStructurePtr(new cVillage(...))
CreateStructureReturn(pieces) == "structure"

\* PlacePieces returns; the constructor finishes and CreateStructure returns the
\* new cVillage
cVillage_Finish ==
    /\ pc = "assemble"
    /\ m_Pieces' = SnapRoot(terrain, m_Pieces)
    /\ pc' = "built"
    /\ result' = CreateStructureReturn(m_Pieces')
    /\ UNCHANGED <<i, rnd, cfg, VillagePrefabs, sampled, m_Density, cursor, terrain,
                   chunk, prev>>

-----------------------------------------------------------------------------
(* cVillage::DrawIntoChunk *)

E_BLOCK_GRAVEL == "E_BLOCK_GRAVEL"
E_BLOCK_PLANKS == "E_BLOCK_PLANKS"

\* BLOCKTYPE RoadBlock = E_BLOCK_GRAVEL; BLOCKTYPE WaterRoadBlock = E_BLOCK_PLANKS
m_RoadBlock == E_BLOCK_GRAVEL
m_WaterRoadBlock == E_BLOCK_PLANKS

SurfaceKinds ==
    <<"E_BLOCK_GRASS", "E_BLOCK_WATER", "E_BLOCK_LAVA", "E_BLOCK_STATIONARY_WATER",
      "E_BLOCK_SAND", "E_BLOCK_STATIONARY_LAVA">>

\* The liquids of the block table
IsBlockLiquid(b) ==
    b \in {"E_BLOCK_WATER", "E_BLOCK_STATIONARY_WATER", "E_BLOCK_LAVA", "E_BLOCK_STATIONARY_LAVA"}

\* IsBlockWater, as DrawRoad calls it
IsBlockWater(b) == b \in {"E_BLOCK_WATER", "E_BLOCK_STATIONARY_WATER"}

Patterns == {0}
DrawChunks == {<<0, 0>>, <<0, -1>>}

\* The chunk as the terrain generator left it: air above the surface, stone
\* below, and at the surface a block that depends on the column
BaseBlock(t, ch, x, y, z) ==
    LET h == GetHeight(t, ch.cx, ch.cz, x, z)
        wx == ch.cx * Width + x
        wz == ch.cz * Width + z
    IN  IF y > h THEN "E_BLOCK_AIR"
        ELSE IF y < h THEN "E_BLOCK_STONE"
        ELSE SurfaceKinds[((wx + 3 * wz + ch.pattern) % Len(SurfaceKinds)) + 1]

\* cChunkDesc::GetBlockType
GetBlockType(t, ch, x, y, z) ==
    IF <<x, y, z>> \in DOMAIN ch.writes THEN ch.writes[<<x, y, z>>]
    ELSE BaseBlock(t, ch, x, y, z)

\* The footprint of a road clipped to the chunk (MinX, MaxX, MinZ, MaxZ of DrawRoad)
RoadColumns(ch, road) ==
    LET RoadCoords == GetHitBox(road)
        MinX == Max2(RoadCoords.x1 - ch.cx * Width, 0)
        MaxX == Min2(RoadCoords.x2 - ch.cx * Width, Width - 1)
        MinZ == Max2(RoadCoords.z1 - ch.cz * Width, 0)
        MaxZ == Min2(RoadCoords.z2 - ch.cz * Width, Width - 1)
    IN  (MinX..MaxX) \X (MinZ..MaxZ)

\* The block DrawRoad puts at a column whose surface block is b, water ignored
RoadMaterialAlwaysPaving(b) == m_RoadBlock

\* The block DrawRoad puts at a column whose surface block is b
RoadMaterial(b) == IF IsBlockWater(b) THEN m_WaterRoadBlock ELSE m_RoadBlock

\* The height DrawRoad writes at, one block too high
RoadWriteYAbove(t, ch, x, z) == GetHeight(t, ch.cx, ch.cz, x, z) + 1

\* The height DrawRoad writes at: cChunkDef::GetHeight(a_HeightMap, x, z)
RoadWriteY(t, ch, x, z) == GetHeight(t, ch.cx, ch.cz, x, z)

\* cVillage::DrawRoad
DrawRoad(t, ch, road) ==
    LET cols == RoadColumns(ch, road)
        new == [key \in {<<c[1], RoadWriteY(t, ch, c[1], c[2]), c[2]>> : c \in cols} |->
                   RoadMaterial(GetBlockType(t, ch, key[1],
                                             GetHeight(t, ch.cx, ch.cz, key[1], key[3]),
                                             key[3]))]
    IN  [ch EXCEPT !.writes = new @@ ch.writes]

\* cPrefab::Draw: the block pattern stamped into the part of the piece's volume
\* that lies in the chunk
PrefabDraw(ch, pp) ==
    LET box == GetHitBox(pp)
        xs == Max2(box.x1 - ch.cx * Width, 0)..Min2(box.x2 - ch.cx * Width, Width - 1)
        zs == Max2(box.z1 - ch.cz * Width, 0)..Min2(box.z2 - ch.cz * Width, Width - 1)
        ys == Max2(box.y1, 0)..Min2(box.y2, Height - 1)
        new == [key \in xs \X ys \X zs |-> "E_BLOCK_COBBLESTONE"]
    IN  [ch EXCEPT !.writes = new @@ ch.writes]

\* The snap test of DrawIntoChunk without the HasBeenMovedToGround flag
NeedsSnapIgnoringFlag(pp) == ShouldMoveToGround(pp)

\* Prefab.ShouldMoveToGround() && !(*itr)->HasBeenMovedToGround()
NeedsSnap(pp) == ShouldMoveToGround(pp) /\ ~pp.moved

\* The loop of DrawIntoChunk from piece k on; st = [pieces, ch]
RECURSIVE DrawFrom(_, _, _)
DrawFrom(t, st, k) ==
    IF k > Len(st.pieces) THEN st
    ELSE LET pp == st.pieces[k]
         IN  IF IsRoad(pp)
             THEN DrawFrom(t, [st EXCEPT !.ch = DrawRoad(t, st.ch, pp)], k + 1)
             ELSE LET snapped == IF NeedsSnap(pp) THEN PlacePieceOnGround(t, pp) ELSE pp
                  IN  DrawFrom(t, [pieces |-> [st.pieces EXCEPT ![k] = snapped],
                                    ch |-> PrefabDraw(st.ch, snapped)], k + 1)

\* The world generator hands out a freshly generated chunk
NewChunk ==
    /\ pc = "built"
    /\ \E c \in DrawChunks, p \in Patterns :
          chunk' = [cx |-> c[1], cz |-> c[2], pattern |-> p, writes |-> << >>, draws |-> 0]
    /\ prev' = NoPrev
    /\ UNCHANGED <<pc, i, rnd, cfg, VillagePrefabs, sampled, result, m_Density,
                   m_Pieces, cursor, terrain>>

\* cVillage::DrawIntoChunk on the current chunk
DrawIntoChunk ==
    /\ pc = "built"
    /\ chunk.draws >= 0
    /\ chunk.draws < MaxDraws
    /\ LET st == DrawFrom(terrain, [pieces |-> m_Pieces, ch |-> chunk], 1)
       IN  /\ m_Pieces' = st.pieces
           /\ chunk' = [st.ch EXCEPT !.draws = @ + 1]
    /\ prev' = [writes |-> chunk.writes, pieces |-> m_Pieces]
    /\ UNCHANGED <<pc, i, rnd, cfg, VillagePrefabs, sampled, result, m_Density,
                   cursor, terrain>>

-----------------------------------------------------------------------------
(* Specifications *)

DensityConfigs == { [min |-> 50, max |-> 100], [min |-> 100, max |-> 100] }

NoSample == [desert |-> FALSE, plains |-> FALSE, other |-> FALSE, last |-> "none"]

\* CreateStructure is entered for a grid cell
InitCreate ==
    /\ pc = "biomes"
    /\ i = 0
    /\ rnd \in 0..MaxRnd
    /\ cfg \in DensityConfigs
    /\ VillagePrefabs = "nullptr"
    /\ sampled = NoSample
    /\ result = "pending"
    /\ m_Density = 0
    /\ m_Pieces = << >>
    /\ cursor = <<0, 0>>
    /\ terrain = Hills
    /\ chunk = NoChunk
    /\ prev = NoPrev

NextCreate ==
    \/ \E b \in AllBiomes : SampleBiome(b)
    \/ ChooseAndConstruct
    \/ PlaceStartingPiece
    \/ PlacePiece
    \/ cVillage_Finish

SpecCreate == InitCreate /\ [][NextCreate]_vars

\* The constructor of cVillage is entered with a pool and a density that
\* CreateStructure can pass
InitVillage ==
    /\ pc = "assemble"
    /\ i = NumBiomes
    /\ rnd = 0
    /\ cfg \in DensityConfigs
    /\ \E b \in {"biPlains"} :
          /\ VillagePrefabs = SwitchBiome(b, rnd, "nullptr")
          /\ sampled = [NoSample EXCEPT !.desert = (b \in DesertBiomes),
                                        !.plains = (b \in PlainsBiomes),
                                        !.last = BiomeFamily(b)]
    /\ result = "pending"
    /\ m_Density = ChooseDensity(cfg, rnd)
    /\ m_Pieces = << >>
    /\ cursor = <<0, 0>>
    /\ terrain \in TerrainProfiles
    /\ chunk = NoChunk
    /\ prev = NoPrev

NextVillage ==
    \/ PlaceStartingPiece
    \/ PlacePiece
    \/ cVillage_Finish
    \/ NewChunk
    \/ DrawIntoChunk

Spec == InitVillage /\ [][NextVillage]_vars

-----------------------------------------------------------------------------
(* Helpers of the properties *)

Mixed == sampled.desert /\ sampled.plains /\ ~sampled.other

\* The constructor has returned and no chunk has been drawn yet
AfterConstructor == pc = "built" /\ chunk = NoChunk

\* The connector of the parent that piece q is attached to
ParentConnector(q) == Piece(m_Pieces[m_Pieces[q].parent].name).conns[m_Pieces[q].via]

\* The vertical move of the root's snap in the constructor
RootDelta ==
    LET root == m_Pieces[1]
        first == GetRotatedConnector([root EXCEPT !.y = root.origY], 1)
    IN  TerrainAt(terrain, first.x, first.z) - first.y + 1

\* Piece q hangs off the root through pieces that attach by connectors only
RECURSIVE ConnectorDriven(_)
ConnectorDriven(q) ==
    IF q = 1 THEN TRUE
    ELSE ~ShouldMoveToGround(m_Pieces[q]) /\ ConnectorDriven(m_Pieces[q].parent)

\* The chunk as it was before the last DrawIntoChunk
PrevChunk == [chunk EXCEPT !.writes = prev.writes]

NowBlock(key) == GetBlockType(terrain, chunk, key[1], key[2], key[3])
PrevBlock(key) == GetBlockType(terrain, PrevChunk, key[1], key[2], key[3])

SurfaceKey(c) == <<c[1], GetHeight(terrain, chunk.cx, chunk.cz, c[1], c[2]), c[2]>>

Roads == {q \in DOMAIN m_Pieces : IsRoad(m_Pieces[q])}
Buildings == {q \in DOMAIN m_Pieces : ~IsRoad(m_Pieces[q])}

\* The surface positions of the road footprints clipped to the chunk
RoadSurfaceKeys == UNION {{SurfaceKey(c) : c \in RoadColumns(chunk, m_Pieces[q])} : q \in Roads}

\* The position is the surface position of a column of a clipped road footprint
OnRoadSurface(key) ==
    /\ key[2] = GetHeight(terrain, chunk.cx, chunk.cz, key[1], key[3])
    /\ \E q \in Roads : <<key[1], key[3]>> \in RoadColumns(chunk, m_Pieces[q])

\* The position lies in the volume of a building, in chunk coordinates
InBuilding(key) ==
    \E q \in Buildings :
       LET box == GetHitBox(m_Pieces[q])
       IN  /\ box.x1 <= key[1] + chunk.cx * Width /\ key[1] + chunk.cx * Width <= box.x2
           /\ box.y1 <= key[2] /\ key[2] <= box.y2
           /\ box.z1 <= key[3] + chunk.cz * Width /\ key[3] + chunk.cz * Width <= box.z2

-----------------------------------------------------------------------------
(* Properties *)

\* C1 as stated: a sample of village-friendly biomes that mixes the desert and
\* the plains family makes CreateStructure return no structure.
C1_MixedFamiliesRejected ==
    (result # "pending" /\ Mixed) => result = "none"

\* C1 amended: a village-friendly sample that mixes the two families is not
\* rejected; CreateStructure returns a structure built from the pool of the
\* family of the last sampled biome, whatever the order of the sample.
C1_MixedFamiliesLastWins ==
    (pc # "biomes" /\ Mixed) =>
        /\ pc # "rejected"
        /\ result # "none"
        /\ pc = "built" => result = "structure"
        /\ PoolFamily(VillagePrefabs) = sampled.last
        /\ VillagePrefabs = IF sampled.last = "desert" THEN DesertVillage(rnd)
                            ELSE PlainsVillage(rnd)

C1_Witness ==
    /\ result = "structure"
    /\ Mixed
    /\ sampled.last = "desert"
    /\ VillagePrefabs = DesertVillage(rnd)

\* C2: as soon as one sampled biome is outside the village-friendly set,
\* CreateStructure returns no structure, wherever the biome stands in the sample
\* and whatever was sampled before it; no cVillage is constructed and the piece
\* generator is not run.
C2_UnfriendlyBiomeRejects ==
    sampled.other =>
        /\ result = "none"
        /\ pc = "rejected"
        /\ m_Pieces = << >>
        /\ cursor = <<0, 0>>

C2_Witness ==
    /\ sampled.other
    /\ i = NumBiomes - 1
    /\ sampled.desert
    /\ sampled.plains
    /\ result = "none"

\* C3: branch limiting.  No road at depth > 0 has a child road attached through
\* one of its type-2 connectors: the pool gives every candidate there weight 0.
\* At every other connector (type 1 at any depth, type 2 of the starting piece
\* or of a piece that is not one block high) the rule excludes nothing: the
\* pool returns the candidate's own weight.
C3_BranchLimiting ==
    chunk = NoChunk =>
    /\ \A q \in DOMAIN m_Pieces :
          (m_Pieces[q].parent # 0 /\ IsRoad(m_Pieces[q])) =>
              ~( /\ ParentConnector(q).type = 2
                 /\ IsRoad(m_Pieces[m_Pieces[q].parent])
                 /\ m_Pieces[m_Pieces[q].parent].depth > 0 )
    /\ \A p \in DOMAIN m_Pieces :
          \A k \in DOMAIN Piece(m_Pieces[p].name).conns, n \in PieceNames :
             LET e == GetRotatedConnector(m_Pieces[p], k)
                 w == cVillagePiecePool_GetPieceWeight(m_Pieces[p], e, n)
             IN  IF e.type = 2 /\ IsRoad(m_Pieces[p]) /\ m_Pieces[p].depth > 0
                 THEN w = 0
                 ELSE w = cPrefab_GetPieceWeight(n)

C3_Witness ==
    /\ \E q \in DOMAIN m_Pieces :
          /\ m_Pieces[q].parent # 0
          /\ ~IsRoad(m_Pieces[q])
          /\ ParentConnector(q).type = 1
          /\ IsRoad(m_Pieces[m_Pieces[q].parent])
          /\ m_Pieces[m_Pieces[q].parent].depth > 0
    /\ \E q \in DOMAIN m_Pieces :
          /\ m_Pieces[q].parent # 0
          /\ IsRoad(m_Pieces[q])
          /\ ParentConnector(q).type = 2
          /\ m_Pieces[m_Pieces[q].parent].depth = 0
    /\ \E q \in DOMAIN m_Pieces : IsRoad(m_Pieces[q]) /\ m_Pieces[q].depth = 2

\* C4 as stated: of the 100 values 0..99 of the reduced position hash, the
\* density test of cVillage::GetPieceWeight lets exactly m_Density through.
C4_DensityIsAcceptedCount ==
    (pc \in {"assemble", "built"}) =>
        Cardinality({r \in 0..99 : ~DensityRejects(r, m_Density)}) = m_Density

\* C5 as stated: the bounding volume of every placed piece lies inside the
\* border cuboid of the structure, in every state of the structure.
C5_BorderContainment ==
    \A q \in DOMAIN m_Pieces : IsInside(GetHitBox(m_Pieces[q]), m_Borders)

\* C6: when the constructor returns with a ground-anchored root, the root's
\* first connector is one block above the terrain of its column and the root
\* has moved by delta = terrain height - connector Y + 1; every other piece that
\* hangs off the root through connector-driven pieces only (itself included)
\* has moved by delta, in one move; every remaining piece has not moved.  With
\* a root that is not ground-anchored nothing has moved.
C6_GroundSnapCascade ==
    AfterConstructor =>
        \A q \in DOMAIN m_Pieces :
           LET pp == m_Pieces[q]
               first == GetRotatedConnector(m_Pieces[1], 1)
           IN  IF ~ShouldMoveToGround(m_Pieces[1])
               THEN pp.y = pp.origY /\ pp.moves = 0
               ELSE /\ first.y = TerrainAt(terrain, first.x, first.z) + 1
                    /\ IF ConnectorDriven(q)
                       THEN pp.y = pp.origY + RootDelta /\ pp.moves = 1
                       ELSE pp.y = pp.origY /\ pp.moves = 0

C6_Witness ==
    /\ AfterConstructor
    /\ Len(m_Pieces) >= 4
    /\ ShouldMoveToGround(m_Pieces[1])
    /\ RootDelta # 0
    /\ \E q \in DOMAIN m_Pieces : m_Pieces[q].depth = 2 /\ ConnectorDriven(q)
    /\ \E q \in DOMAIN m_Pieces : q > 1 /\ ShouldMoveToGround(m_Pieces[q])

\* C7 as stated: a structure is returned only when its piece list is not empty.
C7_EmptyAssemblyReturnsNone ==
    result = "structure" => m_Pieces # << >>

\* C7 amended: once the biome check has passed CreateStructure returns the new
\* cVillage in every case, also when the generator placed no piece; the
\* structure then holds an empty piece list.
C7_EmptyAssemblyStillReturned ==
    pc = "built" => result = "structure"

C7_Witness ==
    /\ pc = "built"
    /\ m_Pieces = << >>
    /\ result = "structure"
    /\ ~sampled.other

\* C8 as stated: DrawRoad puts the water-crossing material on the footprint
\* columns whose surface block was a liquid and the paving material on the
\* others, and changes nothing else.
C8_RoadOverLiquid ==
    chunk.draws >= 1 =>
        \A key \in RoadSurfaceKeys :
           NowBlock(key) = IF IsBlockLiquid(PrevBlock(key)) THEN m_WaterRoadBlock
                           ELSE m_RoadBlock

\* C8 amended: DrawRoad puts the water-crossing material on the footprint
\* columns whose surface block was water (flowing or stationary) and the paving
\* material on all others, lava included; no column outside the clipped
\* footprints and no block off the surface height is changed by a road.
C8_RoadOverWater ==
    chunk.draws >= 1 =>
        /\ \A key \in RoadSurfaceKeys :
              NowBlock(key) = IF IsBlockWater(PrevBlock(key)) THEN m_WaterRoadBlock
                              ELSE m_RoadBlock
        /\ \A key \in DOMAIN chunk.writes :
              (NowBlock(key) # PrevBlock(key)) =>
                  OnRoadSurface(key) \/ InBuilding(key)

C8_Witness ==
    /\ chunk.draws = 1
    /\ \E key \in RoadSurfaceKeys :
          PrevBlock(key) = "E_BLOCK_WATER" /\ NowBlock(key) = m_WaterRoadBlock
    /\ \E key \in RoadSurfaceKeys :
          PrevBlock(key) = "E_BLOCK_LAVA" /\ NowBlock(key) = m_RoadBlock
    /\ \E key \in RoadSurfaceKeys :
          PrevBlock(key) = "E_BLOCK_GRASS" /\ NowBlock(key) = m_RoadBlock

\* C9: a piece is snapped by PlacePieceOnGround at most once, the root's snap
\* in the constructor included, and only if it is ground-anchored and not a
\* road; a DrawIntoChunk call leaves a snapped piece where it was, and leaves
\* the number of pieces and every piece's template, parent, x, z and rotation
\* as they were.
C9_SnapAtMostOnce ==
    /\ \A q \in DOMAIN m_Pieces :
          /\ m_Pieces[q].snaps <= 1
          /\ (IsRoad(m_Pieces[q]) \/ ~ShouldMoveToGround(m_Pieces[q])) => m_Pieces[q].snaps = 0
          /\ ShouldMoveToGround(m_Pieces[q]) => m_Pieces[q].moves = m_Pieces[q].snaps
    /\ chunk.draws >= 1 =>
          /\ Len(m_Pieces) = Len(prev.pieces)
          /\ \A q \in DOMAIN m_Pieces :
                /\ m_Pieces[q].name = prev.pieces[q].name
                /\ m_Pieces[q].parent = prev.pieces[q].parent
                /\ m_Pieces[q].x = prev.pieces[q].x
                /\ m_Pieces[q].z = prev.pieces[q].z
                /\ m_Pieces[q].rot = prev.pieces[q].rot
                /\ prev.pieces[q].snaps >= 1 => m_Pieces[q].y = prev.pieces[q].y

C9_Witness ==
    /\ chunk.draws = 2
    /\ Len(m_Pieces) >= 2
    /\ ShouldMoveToGround(m_Pieces[1])
    /\ m_Pieces[1].snaps = 1
    /\ \E q \in DOMAIN m_Pieces :
          /\ q > 1
          /\ ShouldMoveToGround(m_Pieces[q])
          /\ m_Pieces[q].snaps = 1
          /\ m_Pieces[q].y # m_Pieces[q].origY

\* C10 as stated: a second DrawIntoChunk on the same chunk leaves every
\* road-footprint surface block with the material it had after the first call.
C10_RoadDrawIdempotent ==
    chunk.draws >= 2 => \A key \in RoadSurfaceKeys : NowBlock(key) = PrevBlock(key)

\* C10 amended: after a second DrawIntoChunk on the same chunk every
\* road-footprint surface block is the paving material: the blocks the first
\* call set to the paving material keep it, and the blocks it set to the
\* water-crossing material, which is not water, are paved over.
C10_SecondDrawPavesAll ==
    chunk.draws >= 2 =>
        \A key \in RoadSurfaceKeys :
           /\ PrevBlock(key) \in {m_RoadBlock, m_WaterRoadBlock}
           /\ NowBlock(key) = m_RoadBlock

C10_Witness ==
    /\ chunk.draws = 2
    /\ \E key \in RoadSurfaceKeys :
          PrevBlock(key) = m_WaterRoadBlock /\ NowBlock(key) = m_RoadBlock
    /\ \E key \in RoadSurfaceKeys :
          PrevBlock(key) = m_RoadBlock /\ NowBlock(key) = m_RoadBlock

=============================================================================
